---- MODULE Spec2Model ----
(***************************************************************************)
(* ExpressProvider (src/index.ts): the provider that attaches an express   *)
(* app and its HTTP / HTTPS listeners to the xpresser lifecycle.           *)
(*                                                                         *)
(* src/index.ts holds two revisions of the class (lines 30-342 and lines   *)
(* 364-696).  They differ in the configuration keys they read for the      *)
(* HttpToHttps enforcer and for the powered-by header; the variable rev    *)
(* says which revision is running.                                         *)
(*                                                                         *)
(* JavaScript values are encoded as strings: "undefined", "true", "false"  *)
(* stand for the values of that name, "function" for a function value,     *)
(* and every other string for the string itself ("" is the empty string).  *)
(***************************************************************************)
EXTENDS Naturals, Sequences, FiniteSets, TLC

VARIABLES
    rev,          \* revision of the class that is running: "r1" or "r2"
    config,       \* $.config.data, as far as the provider reads it
    disk,         \* the paths File.exists finds
    hooks,        \* number of host hooks registered on expressInit
    pc,           \* position of the provider's async chain
    app,          \* ExpressProvider.app
    stack,        \* the middleware / route stack of the express app
    settings,     \* the express app's settings
    http,         \* ExpressProvider.http
    https,        \* ExpressProvider.https
    listener,     \* state of the two node listeners, and the error each emitted
    hooksLeft,    \* expressInit hooks that have not run yet
    process,      \* "running" or "exited"
    bootPromise,  \* the promise returned by boot()
    console,      \* what was logged through $.console
    events,       \* history: cycles run, servers created, listens called
    exchange      \* the last request the app handled, and its response

vars == <<rev, config, disk, hooks, pc, app, stack, settings, http, https,
          listener, hooksLeft, process, bootPromise, console, events,
          exchange>>

----------------------------------------------------------------------------
(* Bounds *)

\* largest number of hooks a host application registers on expressInit
MaxHooks == 1

----------------------------------------------------------------------------
(* JavaScript values *)

Undefined == "undefined"

\* JavaScript truthiness, as the `if (x)` tests of init and boot use it
Truthy(v) == v \notin {"undefined", "false", "null", ""}

\* typeof v === "string"
IsString(v) == v \notin {"undefined", "false", "true", "null", "function"}

\* typeof v === "function"
IsFunction(v) == v = "function"

\* $.config.get(key, def): the default stands in for an unset key
ConfigGet(v, def) == IF v = Undefined THEN def ELSE v

\* path.resolve: a relative path is resolved against the working directory
Resolve(p) == <<"cwd", p>>

\* $.path.base(".maintenance")
MaintenanceFile == <<"base", ".maintenance">>

\* File.exists
FileExists(p) == p \in disk

----------------------------------------------------------------------------
(* Configuration *)

\* server.template: absent, or an object with an engine and / or a `use`
NoTemplate == [present |-> FALSE, engine |-> "undefined", use |-> "undefined"]

TemplateConfigs ==
    { NoTemplate,
      [present |-> TRUE, engine |-> "function", use |-> "undefined"],
      [present |-> TRUE, engine |-> "function", use |-> "tplModule"],
      [present |-> TRUE, engine |-> "ejs",      use |-> "tplModule"],
      [present |-> TRUE, engine |-> "ejs",      use |-> "function"],
      [present |-> TRUE, engine |-> "ejs",      use |-> "undefined"] }

\* server.ssl.files: absent, or an object whose key and cert are anything
NoSslFiles == [has |-> FALSE, key |-> "undefined", cert |-> "undefined"]

KeyValues  == {"undefined", "", "missing.key", "server.key"}
CertValues == {"undefined", "", "missing.crt", "server.crt"}

SslFilesConfigs ==
    {NoSslFiles} \cup [has : {TRUE}, key : KeyValues, cert : CertValues]

GoodSslFiles == [has |-> TRUE, key |-> "server.key", cert |-> "server.crt"]

\* the keys init reads
MiddlewareConfigs ==
    [ forceHttpToHttps             : {"false", "true"},
      poweredBy                    : {"false", "true", "MyServer"},
      overrideServerName           : {"undefined", "MyApp"},
      servePublicFolder            : {"false", "true"},
      pathsPublic                  : {"undefined", "public"},
      useCors                      : {"false", "true"},
      useBodyParser                : {"false", "true"},
      template                     : TemplateConfigs,
      convertBodyEmptyStringToNull : {"undefined", "true", "false"} ]

\* the keys boot and startHttpsServer read
TlsConfigs ==
    [ sslEnabled : {"undefined", "false", "true"}, sslFiles : SslFilesConfigs ]

\* two middleware configurations: nothing switched on, everything switched on
MiddlewareOff ==
    [ forceHttpToHttps |-> "false", poweredBy |-> "false",
      overrideServerName |-> "undefined", servePublicFolder |-> "false",
      pathsPublic |-> "undefined", useCors |-> "false",
      useBodyParser |-> "false", template |-> NoTemplate,
      convertBodyEmptyStringToNull |-> "false" ]

MiddlewareOn ==
    [ forceHttpToHttps |-> "true", poweredBy |-> "true",
      overrideServerName |-> "MyApp", servePublicFolder |-> "true",
      pathsPublic |-> "public", useCors |-> "true",
      useBodyParser |-> "true",
      template |-> [present |-> TRUE, engine |-> "ejs", use |-> "tplModule"],
      convertBodyEmptyStringToNull |-> "undefined" ]

\* three TLS configurations: off, on with both files, on without files
TlsBasic ==
    { [sslEnabled |-> "false", sslFiles |-> NoSslFiles],
      [sslEnabled |-> "true",  sslFiles |-> GoodSslFiles],
      [sslEnabled |-> "true",  sslFiles |-> NoSslFiles] }

Join(m, t) == [ mw |-> m, tls |-> t ]

\* every middleware configuration with the basic TLS ones, and every TLS
\* configuration with the two basic middleware ones
Configs ==
    { Join(m, t) : m \in MiddlewareConfigs, t \in TlsBasic }
      \cup { Join(m, t) : m \in {MiddlewareOff, MiddlewareOn}, t \in TlsConfigs }

\* the files on disk: the TLS key and certificate, and maybe .maintenance
Disks ==
    { {Resolve("server.key"), Resolve("server.crt")} \cup m :
        m \in {{}, {MaintenanceFile}} }

----------------------------------------------------------------------------
(* init: the middleware the configuration selects, in the order of the code *)

\* HttpToHttps Enforcer
Enforcer == 
    IF Truthy(ConfigGet(config.mw.forceHttpToHttps, "false"))
    THEN <<"httpToHttpsEnforcer">> ELSE <<>>

\* r1: if (poweredBy); r2: if (!!poweredBy || !!overrideServerName)
PoweredByOn ==
    IF rev = "r1"
    THEN Truthy(config.mw.poweredBy)
    ELSE Truthy(config.mw.poweredBy) \/ Truthy(config.mw.overrideServerName)

PoweredBy == IF PoweredByOn THEN <<"poweredBy">> ELSE <<>>

\* the string the powered-by middleware sets
PoweredByString ==
    IF IsString(config.mw.poweredBy) THEN config.mw.poweredBy ELSE "Xpresser"

\* const isUnderMaintenance = File.exists($.path.base(".maintenance"))
IsUnderMaintenance == FileExists(MaintenanceFile)

\* the test of the static middleware without the maintenance file
ServePublicFolderOnNoMaintenance ==
    /\ Truthy(ConfigGet(config.mw.servePublicFolder, "false"))
    /\ Truthy(config.mw.pathsPublic)

\* if (!isUnderMaintenance && servePublicFolder && paths.public)
ServePublicFolderOn ==
    /\ ~IsUnderMaintenance
    /\ Truthy(ConfigGet(config.mw.servePublicFolder, "false"))
    /\ Truthy(config.mw.pathsPublic)

ServePublicFolder == IF ServePublicFolderOn THEN <<"static">> ELSE <<>>

Cors == IF Truthy(config.mw.useCors) THEN <<"cors">> ELSE <<>>

\* json, urlencoded, then the bad-JSON error skipper
BodyParser ==
    IF Truthy(config.mw.useBodyParser)
    THEN <<"bodyParserJson", "bodyParserUrlencoded", "skipBadJson">>
    ELSE <<>>

\* app.use(module) / app.use(template.use): only when engine is no function
TemplateUseOn ==
    LET t == config.mw.template IN
    /\ t.present
    /\ ~IsFunction(t.engine)
    /\ (IsString(t.use) \/ IsFunction(t.use))

Template == IF TemplateUseOn THEN <<"template">> ELSE <<>>

ConvertEmptyStringOn ==
    Truthy(ConfigGet(config.mw.convertBodyEmptyStringToNull, "true"))

ConvertEmptyString ==
    IF ConvertEmptyStringOn THEN <<"convertEmptyStringToNull">> ELSE <<>>

\* the app.use calls of init with the powered-by setter moved to the front
InitStackPoweredByFirst ==
    PoweredBy \o Enforcer \o ServePublicFolder \o Cors \o BodyParser
      \o Template \o ConvertEmptyString

\* the app.use calls of init, in program order
InitStack ==
    Enforcer \o PoweredBy \o ServePublicFolder \o Cors \o BodyParser
      \o Template \o ConvertEmptyString

\* app.disable / app.engine / app.set calls of init
InitSettings ==
    LET t == config.mw.template IN
    [ xPoweredBy |-> IF PoweredByOn THEN "enabled" ELSE "disabled",
      viewEngine |->
          IF ~t.present THEN "undefined"
          ELSE IF IsFunction(t.engine) THEN "ext"
          ELSE IF IsString(t.use) \/ IsFunction(t.use) THEN "undefined"
          ELSE t.engine,
      views      |-> IF t.present THEN "views://" ELSE "undefined" ]

----------------------------------------------------------------------------
(* State after construction *)

NoPromise == [state |-> "none", value |-> "none"]

\* no request has been handled yet
NoExchange == [phase |-> "idle"]

\* the state after construction, for a configuration out of cfgs
Start(cfgs) ==
    /\ rev \in {"r1", "r2"}
    /\ config \in cfgs
    /\ disk \in Disks
    /\ hooks \in 0..MaxHooks
    /\ pc = "constructed"
    /\ app = Undefined
    /\ stack = <<>>
    /\ settings = [xPoweredBy |-> "enabled", viewEngine |-> "undefined",
                   views |-> "undefined"]
    /\ http = Undefined
    /\ https = Undefined
    /\ listener = [http |-> "none", https |-> "none",
                   httpError |-> "none", httpsError |-> "none"]
    /\ hooksLeft = 0
    /\ process = "running"
    /\ bootPromise = NoPromise
    /\ console = <<>>
    /\ events = <<>>
    /\ exchange = NoExchange

Init == Start(Configs)

\* init($): create the app, install the middleware, run the expressInit cycle
init ==
    /\ pc = "constructed"
    /\ app' = "ExpressApp"
    /\ stack' = InitStack
    /\ settings' = InitSettings
    /\ hooksLeft' = hooks
    /\ events' = Append(events, "cycle:expressInit")
    /\ pc' = "expressInit"
    /\ UNCHANGED <<exchange, rev, config, disk, hooks, http, https, listener, process,
                   bootPromise, console>>

\* a hook the host registered with $.on.expressInit: AddRoutes
ExpressInitHook ==
    /\ pc = "expressInit"
    /\ hooksLeft > 0
    /\ stack' = Append(stack, "route")
    /\ hooksLeft' = hooksLeft - 1
    /\ UNCHANGED <<exchange, rev, config, disk, hooks, pc, app, settings, http, https,
                   listener, process, bootPromise, console, events>>

----------------------------------------------------------------------------
(* $.console and the startup promise *)

Log(level, msg, arg) == [level |-> level, msg |-> msg, arg |-> arg]

Pending  == [state |-> "pending",  value |-> "none"]
Resolved == [state |-> "resolved", value |-> "true"]
Rejected(err) == [state |-> "rejected", value |-> err.errno]

\* the errors a node listener emits while it binds
Errnos == {"EADDRINUSE", "EACCES", "EADDRNOTAVAIL"}
ListenErrors == [errno : Errnos]

\* hasSslEnabled with the default of the key taken to be true
HasSslEnabledDefaultTrue == Truthy(ConfigGet(config.tls.sslEnabled, "true"))

\* const hasSslEnabled = $.config.get("server.ssl.enabled", false)
HasSslEnabled == Truthy(ConfigGet(config.tls.sslEnabled, "false"))

----------------------------------------------------------------------------
(* boot: the HTTP listener *)

\* boot that does not wait for the expressInit hooks to complete
bootBeforeHooksDone ==
    /\ pc = "expressInit"
    /\ http' = "HttpServer"
    /\ events' = events \o <<"createHttp", "cycle:http">>
    /\ bootPromise' = Pending
    /\ pc' = "httpCycle"
    /\ UNCHANGED <<exchange, rev, config, disk, hooks, app, stack, settings, https,
                   listener, hooksLeft, process, console>>

\* boot that calls listen before it runs the http cycle
bootListenBeforeCycle ==
    /\ pc = "expressInit"
    /\ hooksLeft = 0
    /\ http' = "HttpServer"
    /\ listener' = [listener EXCEPT !.http = "binding"]
    /\ events' = events \o <<"createHttp", "listenHttp", "cycle:http">>
    /\ bootPromise' = Pending
    /\ pc' = "httpBinding"
    /\ UNCHANGED <<exchange, rev, config, disk, hooks, app, stack, settings, https,
                   hooksLeft, process, console>>

\* boot($): create the http server and run the http cycle
boot ==
    /\ pc = "expressInit"
    /\ hooksLeft = 0
    /\ http' = "HttpServer"
    /\ events' = events \o <<"createHttp", "cycle:http">>
    /\ bootPromise' = Pending
    /\ pc' = "httpCycle"
    /\ UNCHANGED <<exchange, rev, config, disk, hooks, app, stack, settings, https,
                   listener, hooksLeft, process, console>>

\* boot, after the http cycle: register the error handler and call listen
bootListen ==
    /\ pc = "httpCycle"
    /\ listener' = [listener EXCEPT !.http = "binding"]
    /\ events' = Append(events, "listenHttp")
    /\ pc' = "httpBinding"
    /\ UNCHANGED <<exchange, rev, config, disk, hooks, app, stack, settings, http, https,
                   hooksLeft, process, bootPromise, console>>

\* this.http.on("error", ...): exit on EADDRINUSE, reject otherwise
httpOnError(err) ==
    /\ pc = "httpBinding"
    /\ listener' = [listener EXCEPT !.http = "failed", !.httpError = err.errno]
    /\ IF err.errno = "EADDRINUSE"
       THEN /\ console' = Append(console, Log("error", "Port is already in use.", "port"))
            /\ process' = "exited"
            /\ pc' = "exited"
            /\ UNCHANGED bootPromise
       ELSE /\ bootPromise' = Rejected(err)
            /\ pc' = "rejected"
            /\ UNCHANGED <<console, process>>
    /\ UNCHANGED <<exchange, rev, config, disk, hooks, app, stack, settings, http, https,
                   hooksLeft, events>>

\* the listen callback that resolves without awaiting startHttpsServer
httpOnListeningNoAwait ==
    /\ pc = "httpBinding"
    /\ listener' = [listener EXCEPT !.http = "listening"]
    /\ console' = Append(console, Log("info", "Domain | Port | BaseUrl", "port"))
    /\ bootPromise' = Resolved
    /\ pc' = IF HasSslEnabled THEN "startHttps" ELSE "booted"
    /\ UNCHANGED <<exchange, rev, config, disk, hooks, app, stack, settings, http, https,
                   hooksLeft, process, events>>

\* the callback of this.http.listen: log, then start https or resolve
httpOnListening ==
    /\ pc = "httpBinding"
    /\ listener' = [listener EXCEPT !.http = "listening"]
    /\ console' = Append(console, Log("info", "Domain | Port | BaseUrl", "port"))
    /\ IF HasSslEnabled
       THEN /\ pc' = "startHttps"
            /\ UNCHANGED bootPromise
       ELSE /\ bootPromise' = Resolved
            /\ pc' = "booted"
    /\ UNCHANGED <<exchange, rev, config, disk, hooks, app, stack, settings, http, https,
                   hooksLeft, process, events>>

----------------------------------------------------------------------------
(* startHttpsServer: the HTTPS listener *)

\* SslFilesError without the check that the cert file exists
SslFilesErrorNoCertCheck ==
    LET f == config.tls.sslFiles IN
    IF ~f.has
    THEN Log("error", "Ssl enabled but has no {server.ssl.files} config found.", "")
    ELSE IF ~IsString(f.key) \/ ~IsString(f.cert)
    THEN Log("error", "Config {server.ssl.files} not configured properly!", "")
    ELSE IF f.key = "" \/ f.cert = ""
    THEN Log("error", "Config {server.ssl.files} not configured properly!", "")
    ELSE IF ~FileExists(Resolve(f.key))
    THEN Log("error", "Key file not found!", f.key)
    ELSE Log("none", "none", "")

\* the checks of server.ssl.files, in program order: the message of the
\* first that fails, or "none"
SslFilesError ==
    LET f == config.tls.sslFiles IN
    IF ~f.has
    THEN Log("error", "Ssl enabled but has no {server.ssl.files} config found.", "")
    ELSE IF ~IsString(f.key) \/ ~IsString(f.cert)
    THEN Log("error", "Config {server.ssl.files} not configured properly!", "")
    ELSE IF f.key = "" \/ f.cert = ""
    THEN Log("error", "Config {server.ssl.files} not configured properly!", "")
    ELSE IF ~FileExists(Resolve(f.key))
    THEN Log("error", "Key file not found!", f.key)
    ELSE IF ~FileExists(Resolve(f.cert))
    THEN Log("error", "Cert file not found!", f.key)
    ELSE Log("none", "none", "")

\* startHttpsServer that stores the new server in this.http
startHttpsServerIntoHttp ==
    /\ pc = "startHttps"
    /\ IF SslFilesError.level = "error"
       THEN /\ console' = Append(console, SslFilesError)
            /\ process' = "exited"
            /\ pc' = "exited"
            /\ events' = Append(events, "startHttpsServer")
            /\ UNCHANGED http
       ELSE /\ http' = "HttpsServer"
            /\ events' = events \o <<"startHttpsServer", "createHttps", "cycle:https">>
            /\ pc' = "httpsCycle"
            /\ UNCHANGED <<console, process>>
    /\ UNCHANGED <<exchange, rev, config, disk, hooks, app, stack, settings, https,
                   listener, hooksLeft, bootPromise>>

\* startHttpsServer($) up to the https cycle
startHttpsServer ==
    /\ pc = "startHttps"
    /\ IF SslFilesError.level = "error"
       THEN /\ console' = Append(console, SslFilesError)
            /\ process' = "exited"
            /\ pc' = "exited"
            /\ events' = Append(events, "startHttpsServer")
            /\ UNCHANGED https
       ELSE /\ https' = "HttpsServer"
            /\ events' = events \o <<"startHttpsServer", "createHttps", "cycle:https">>
            /\ pc' = "httpsCycle"
            /\ UNCHANGED <<console, process>>
    /\ UNCHANGED <<exchange, rev, config, disk, hooks, app, stack, settings, http,
                   listener, hooksLeft, bootPromise>>

\* startHttpsServer, after the https cycle: error handler and listen
httpsListen ==
    /\ pc = "httpsCycle"
    /\ listener' = [listener EXCEPT !.https = "binding"]
    /\ events' = Append(events, "listenHttps")
    /\ pc' = "httpsBinding"
    /\ UNCHANGED <<exchange, rev, config, disk, hooks, app, stack, settings, http, https,
                   hooksLeft, process, bootPromise, console>>

\* this.https.on("error", $.console.logError): the error is logged, no more
httpsOnError(err) ==
    /\ pc = "httpsBinding"
    /\ listener' = [listener EXCEPT !.https = "failed", !.httpsError = err.errno]
    /\ console' = Append(console, Log("error", "listener error", err.errno))
    /\ pc' = "httpsFailed"
    /\ UNCHANGED <<exchange, rev, config, disk, hooks, app, stack, settings, http, https,
                   hooksLeft, process, bootPromise, events>>

\* the callback of this.https.listen; startHttpsServer returns and the
\* callback of this.http.listen resolves the startup promise
httpsOnListening ==
    /\ pc = "httpsBinding"
    /\ listener' = [listener EXCEPT !.https = "listening"]
    /\ console' = Append(console, Log("success", "Ssl Enabled.", ""))
    /\ bootPromise' = Resolved
    /\ pc' = "booted"
    /\ UNCHANGED <<exchange, rev, config, disk, hooks, app, stack, settings, http, https,
                   hooksLeft, process, events>>

----------------------------------------------------------------------------
(* Requests: the handlers init installs, and how express runs them *)

\* longest string in a request body
MaxStrLen == 2

\* strings are sequences of characters: a blank and a letter
Chars == {" ", "x"}

Strings == UNION { [1..n -> Chars] : n \in 0..MaxStrLen }

RECURSIVE TrimStart(_)
TrimStart(s) ==
    IF Len(s) > 0 /\ s[1] = " " THEN TrimStart(SubSeq(s, 2, Len(s))) ELSE s

RECURSIVE TrimEnd(_)
TrimEnd(s) ==
    IF Len(s) > 0 /\ s[Len(s)] = " "
    THEN TrimEnd(SubSeq(s, 1, Len(s) - 1)) ELSE s

\* String.prototype.trim
Trim(s) == TrimEnd(TrimStart(s))

\* a value of a body field; Absent marks a key the body does not have
Str(s)  == [type |-> "string", chars |-> s]
Null    == [type |-> "null",   chars |-> <<>>]
Absent  == [type |-> "absent", chars |-> <<>>]

FieldValues ==
    { Str(s) : s \in Strings }
      \cup { Null, [type |-> "number", chars |-> <<>>],
             [type |-> "object", chars |-> <<>>] }

BodyKeys == {"a", "b"}

\* req.body: undefined, or an object over BodyKeys
NoBody    == [defined |-> FALSE, fields |-> [k \in BodyKeys |-> Absent]]
EmptyBody == [defined |-> TRUE,  fields |-> [k \in BodyKeys |-> Absent]]

\* field a takes every value, field b is absent, empty or a word
Bodies ==
    { [ defined |-> TRUE, fields |-> [a |-> v, b |-> w] ] :
        v \in FieldValues \cup {Absent},
        w \in {Absent, Str(<<>>), Str(<<"x">>)} }

\* Object.keys(req.body)
ObjectKeys(body) == { k \in BodyKeys : body.fields[k] # Absent }

\* an error passed to next(err)
NoError == [raised |-> FALSE, type |-> "undefined"]
Error(t) == [raised |-> TRUE, type |-> t]

\* what the body parser does with the request: "none" when it parses, else
\* the type of the error it raises ("undefined": an error without a type)
Faults == {"none", "entity.parse.failed", "entity.too.large", "undefined"}

\* req.url, in pieces: "/" and a path that carries a URL in its query
Urls == { <<"/">>, <<"/go?to=", "http://", "other.test/">> }

BasicRequest(ch) ==
    [ channel |-> ch, xForwardedProto |-> "undefined", hostname |-> "app.test",
      url |-> <<"/">>, payload |-> EmptyBody, fault |-> "none" ]

\* the requests: every header and url with an empty body, every body and
\* every fault of the parser with the basic headers
Requests ==
    [ channel : {"http", "https"}, xForwardedProto : {"undefined", "http", "https"},
      hostname : {"app.test"}, url : Urls, payload : {EmptyBody},
      fault : {"none"} ]
      \cup { [BasicRequest(ch) EXCEPT !.payload = b] :
                ch \in {"http", "https"}, b \in Bodies }
      \cup { [BasicRequest(ch) EXCEPT !.fault = f, !.xForwardedProto = x] :
                ch \in {"http", "https"}, f \in Faults, x \in {"undefined", "https"} }

\* req.secure and req.protocol of express: the connection is encrypted
ReqSecure(req) == req.channel = "https"
ReqProtocol(req) == IF ReqSecure(req) THEN "https" ELSE "http"

\* String.prototype.replace(from, to) on a string in pieces: the first
\* occurrence only
RECURSIVE ReplaceFirst(_, _, _)
ReplaceFirst(s, from, to) ==
    IF s = <<>> THEN <<>>
    ELSE IF Head(s) = from THEN <<to>> \o Tail(s)
    ELSE <<Head(s)>> \o ReplaceFirst(Tail(s), from, to)

\* `${req.protocol}://`
Scheme(protocol) == IF protocol = "https" THEN "https://" ELSE "http://"

\* the enforcer's test: x-forwarded-proto === "https" || req.secure
IsSecure(req) == req.xForwardedProto = "https" \/ ReqSecure(req)

\* the URL the enforcer redirects to
NewUrl(req) ==
    ReplaceFirst(<<Scheme(ReqProtocol(req)), req.hostname>> \o req.url,
                 "http://", "https://")

\* the enforcer that looks at req.secure only
EnforcerHandlerSecureOnly(req) ==
    IF ReqSecure(req)
    THEN [action |-> "next", location |-> <<>>]
    ELSE [action |-> "redirect", location |-> NewUrl(req)]

\* the HttpToHttps enforcer: next() or res.redirect(newUrl)
EnforcerHandler(req) ==
    IF IsSecure(req)
    THEN [action |-> "next", location |-> <<>>]
    ELSE [action |-> "redirect", location |-> NewUrl(req)]

\* the powered-by middleware: the headers it sets on the response
PoweredByHandler(headers) ==
    [headers EXCEPT
        !.xPoweredBy = PoweredByString,
        !.server = IF Truthy(config.mw.overrideServerName)
                   THEN PoweredByString ELSE @]

\* the skipper that clears every error
SkipBadJsonAll(err) == NoError

\* Skip Bad Json Error: the error the skipper passes to next
SkipBadJson(err) ==
    IF err.raised /\ Truthy(err.type) /\ err.type = "entity.parse.failed"
    THEN NoError
    ELSE err

\* the converter that compares with "" without trimming
ConvertBodyNoTrim(body) ==
    IF body.defined /\ ObjectKeys(body) # {}
    THEN [body EXCEPT !.fields =
            [k \in BodyKeys |->
                IF body.fields[k].type = "string" /\ body.fields[k].chars = <<>>
                THEN Null
                ELSE body.fields[k]]]
    ELSE body

\* Convert Empty String to Null: req.body after the converter
ConvertBody(body) ==
    IF body.defined /\ ObjectKeys(body) # {}
    THEN [body EXCEPT !.fields =
            [k \in BodyKeys |->
                IF body.fields[k].type = "string" /\ Trim(body.fields[k].chars) = <<>>
                THEN Null
                ELSE body.fields[k]]]
    ELSE body

\* body-parser's json(): req.body is the parsed payload, or next(err)
JsonParser(req, ctx) ==
    IF req.fault # "none"
    THEN [ctx EXCEPT !.body = EmptyBody, !.err = Error(req.fault)]
    ELSE [ctx EXCEPT !.body = req.payload]

\* the request as express hands it to the first handler: no body, no error,
\* X-Powered-By: Express unless the app's x-powered-by setting is disabled
FirstContext ==
    [ err |-> NoError, body |-> NoBody,
      headers |-> [ xPoweredBy |-> IF settings.xPoweredBy = "enabled"
                                   THEN "Express" ELSE "undefined",
                    server |-> "undefined", location |-> <<>> ],
      log |-> <<>>, outcome |-> "pending" ]

\* one handler of the stack runs; the log records what it saw and did
Invoke(m, req, ctx) ==
    LET out ==
          CASE m = "httpToHttpsEnforcer" ->
                  IF EnforcerHandler(req).action = "next" THEN ctx
                  ELSE [ctx EXCEPT !.outcome = "redirect",
                                   !.headers.location = EnforcerHandler(req).location]
            [] m = "poweredBy" ->
                  [ctx EXCEPT !.headers = PoweredByHandler(ctx.headers)]
            [] m = "bodyParserJson" -> JsonParser(req, ctx)
            [] m = "skipBadJson" -> [ctx EXCEPT !.err = SkipBadJson(ctx.err)]
            [] m = "convertEmptyStringToNull" ->
                  [ctx EXCEPT !.body = ConvertBody(ctx.body)]
            [] m = "route" ->
                  IF req.url = <<"/">> THEN [ctx EXCEPT !.outcome = "route"]
                  ELSE ctx
            [] OTHER -> ctx
    IN [out EXCEPT !.log =
          Append(ctx.log,
                 [ mw |-> m, errIn |-> ctx.err, errOut |-> out.err,
                   bodyIn |-> ctx.body, bodyOut |-> out.body,
                   action |-> IF out.outcome = "pending" THEN "next"
                              ELSE out.outcome ])]

\* express runs the stack from entry i: with an error pending only the
\* error handler (the skipper) runs, without one every other handler; a
\* handler that answers ends the run, and at the end of the stack the final
\* handler answers
RECURSIVE Dispatch(_, _, _)
DispatchFrom(i, req, ctx) ==
    IF ctx.outcome # "pending" THEN ctx
    ELSE IF i > Len(stack)
    THEN [ctx EXCEPT !.outcome = IF ctx.err.raised THEN "error" ELSE "notFound"]
    ELSE IF (stack[i] = "skipBadJson") # ctx.err.raised
    THEN Dispatch(i + 1, req, ctx)
    ELSE Dispatch(i + 1, req, Invoke(stack[i], req, ctx))

\* (the context is evaluated once and then handed on)
Dispatch(i, req, ctx) ==
    CHOOSE r \in { DispatchFrom(i, req, c) : c \in {ctx} } : TRUE

\* a request arrives on a listener that listens and the app answers it;
\* the handlers keep no state between requests, so one request is followed
HandleRequest(req) ==
    /\ exchange = NoExchange
    /\ process = "running"
    /\ listener[req.channel] = "listening"
    /\ exchange' = [phase |-> "done", req |-> req,
                    res |-> Dispatch(1, req, FirstContext)]
    /\ UNCHANGED <<rev, config, disk, hooks, pc, app, stack, settings, http,
                   https, listener, hooksLeft, process, bootPromise, console,
                   events>>

----------------------------------------------------------------------------

Next ==
    \/ init
    \/ ExpressInitHook
    \/ boot
    \/ bootListen
    \/ \E err \in ListenErrors : httpOnError(err)
    \/ httpOnListening
    \/ startHttpsServer
    \/ httpsListen
    \/ \E err \in ListenErrors : httpsOnError(err)
    \/ httpsOnListening

Spec == Init /\ [][Next]_vars

----------------------------------------------------------------------------
(* The provider with requests *)

\* the middleware configurations for requests: static, cors and the
\* template middleware are switched together
MiddlewareConfigsReq ==
    { m \in MiddlewareConfigs :
        /\ m.pathsPublic = "public"
        /\ m.servePublicFolder = m.useCors
        /\ m.template = IF m.useCors = "true" THEN MiddlewareOn.template
                        ELSE NoTemplate }

ConfigsReq == { Join(m, t) : m \in MiddlewareConfigsReq, t \in TlsBasic }

InitReq == Start(ConfigsReq)

NextReq ==
    \/ Next
    \/ \E req \in Requests : HandleRequest(req)

SpecReq == InitReq /\ [][NextReq]_vars

----------------------------------------------------------------------------
(* Reading the history *)

Happened(e) == \E i \in 1..Len(events) : events[i] = e

Logged(level) == \E i \in 1..Len(console) : console[i].level = level

----------------------------------------------------------------------------
(* C1 *)

\* C1: a listener the provider started that fails with port-already-in-use
\* is reported with a logged message and the process exits, and boot() does
\* not resolve.
C1_PortInUseExits ==
    \A l \in {"httpError", "httpsError"} :
        listener[l] = "EADDRINUSE" =>
            /\ Logged("error")
            /\ process = "exited"
            /\ bootPromise.state # "resolved"

----------------------------------------------------------------------------
(* C2 *)

\* C2: every listener error other than port-already-in-use, from the HTTP
\* or from the HTTPS listener, rejects the promise of boot() with that error.
C2_OtherErrorsReject ==
    \A l \in {"httpError", "httpsError"} :
        listener[l] \notin {"none", "EADDRINUSE"} =>
            bootPromise = [state |-> "rejected", value |-> listener[l]]

----------------------------------------------------------------------------
(* C3 *)

\* the TLS file configuration is invalid: files absent, key or cert not a
\* string or empty, or the resolved key or cert file missing
InvalidTlsFiles ==
    LET f == config.tls.sslFiles IN
    \/ ~f.has
    \/ \E v \in {f.key, f.cert} :
          \/ ~IsString(v)
          \/ v = ""
          \/ Resolve(v) \notin disk

\* C3: with server.ssl.enabled truthy and an invalid TLS file configuration
\* no HTTPS server is ever created, the https cycle never runs and no HTTPS
\* listen is attempted; and once startHttpsServer has run the process has
\* exited with a logged error.
C3_InvalidTlsExits ==
    (Truthy(config.tls.sslEnabled) /\ InvalidTlsFiles) =>
        /\ https = Undefined
        /\ listener.https = "none"
        /\ ~Happened("createHttps")
        /\ ~Happened("cycle:https")
        /\ ~Happened("listenHttps")
        /\ Happened("startHttpsServer") =>
              /\ process = "exited"
              /\ console[Len(console)].level = "error"

\* startHttpsServer has run on a configuration whose cert file is missing
C3_Witness ==
    /\ Truthy(config.tls.sslEnabled)
    /\ config.tls.sslFiles.has
    /\ config.tls.sslFiles.key = "server.key"
    /\ config.tls.sslFiles.cert = "missing.crt"
    /\ Happened("startHttpsServer")
    /\ process = "exited"

----------------------------------------------------------------------------
(* C4 *)

NotRoute(m) == m # "route"
IsRoute(m) == m = "route"

\* the middleware init installed, without the routes the hooks added
ProviderMiddleware(s) == SelectSeq(s, NotRoute)

----------------------------------------------------------------------------
(* C5 *)

Count(e) == Cardinality({i \in 1..Len(events) : events[i] = e})

Pos(e) == CHOOSE i \in 1..Len(events) : events[i] = e

\* b happened only after a
After(a, b) == Happened(b) => (Happened(a) /\ Pos(a) < Pos(b))

\* C5: each custom boot cycle runs at most once, in the order expressInit,
\* http, https; the http cycle runs between the creation of the HTTP server
\* and its listen, the https cycle between the creation of the HTTPS server
\* and its listen.
C5_CycleOrder ==
    /\ \A c \in {"cycle:expressInit", "cycle:http", "cycle:https"} : Count(c) <= 1
    /\ After("cycle:expressInit", "cycle:http")
    /\ After("cycle:http", "cycle:https")
    /\ After("createHttp", "cycle:http")
    /\ After("cycle:http", "listenHttp")
    /\ After("createHttps", "cycle:https")
    /\ After("cycle:https", "listenHttps")

\* all three cycles have run and both listeners were asked to listen
C5_Witness ==
    /\ Happened("cycle:expressInit")
    /\ Happened("listenHttp")
    /\ Happened("listenHttps")

----------------------------------------------------------------------------
(* C6 *)

----------------------------------------------------------------------------
(* C7 *)

FixedOrder ==
    << "httpToHttpsEnforcer", "poweredBy", "static", "cors", "bodyParserJson",
       "bodyParserUrlencoded", "skipBadJson", "template",
       "convertEmptyStringToNull" >>

OrderIndex(m) == CHOOSE i \in 1..Len(FixedOrder) : FixedOrder[i] = m

\* C7: the middleware init installed is a subsequence of the fixed order,
\* and the HttpToHttps enforcer, when installed, is the first entry of the
\* app's stack.
C7_FixedMiddlewareOrder ==
    LET mw == ProviderMiddleware(stack) IN
    /\ \A i \in 1..Len(mw) : \E k \in 1..Len(FixedOrder) : FixedOrder[k] = mw[i]
    /\ \A i, j \in 1..Len(mw) : i < j => OrderIndex(mw[i]) < OrderIndex(mw[j])
    /\ (\E i \in 1..Len(stack) : stack[i] = "httpToHttpsEnforcer") =>
          stack[1] = "httpToHttpsEnforcer"

\* every middleware of the fixed order is installed, and a route after them
C7_Witness ==
    /\ ProviderMiddleware(stack) = FixedOrder
    /\ Len(stack) > Len(FixedOrder)

----------------------------------------------------------------------------
(* C8 *)

----------------------------------------------------------------------------
(* C9 *)

\* C9: boot() has resolved only if the HTTP listener is listening and, with
\* server.ssl.enabled truthy, the HTTPS listener is listening too.
C9_ResolveAfterListening ==
    bootPromise.state = "resolved" =>
        /\ listener.http = "listening"
        /\ Truthy(config.tls.sslEnabled) => listener.https = "listening"

\* boot() has resolved with ssl enabled
C9_Witness ==
    /\ bootPromise.state = "resolved"
    /\ Truthy(config.tls.sslEnabled)
    /\ listener.https = "listening"

----------------------------------------------------------------------------
(* C10 *)

Installed(m) == \E i \in 1..Len(stack) : stack[i] = m

\* C10: after init, with .maintenance in the base folder the static
\* middleware is not installed; without it the static middleware is
\* installed exactly when server.servePublicFolder is truthy and
\* paths.public is set.
C10_MaintenanceGatesStatic ==
    app # Undefined =>
        IF MaintenanceFile \in disk
        THEN ~Installed("static")
        ELSE Installed("static") <=>
                (Truthy(config.mw.servePublicFolder) /\ Truthy(config.mw.pathsPublic))

\* init has run under maintenance on a configuration that asks for the
\* public folder
C10_Witness ==
    /\ app # Undefined
    /\ MaintenanceFile \in disk
    /\ Truthy(config.mw.servePublicFolder)
    /\ Truthy(config.mw.pathsPublic)
    /\ ~Installed("static")

----------------------------------------------------------------------------
(* Reading the answer to a request *)

Answered == exchange.phase = "done"

\* the entries of the log written by handler m
Ran(m) == { i \in 1..Len(exchange.res.log) : exchange.res.log[i].mw = m }

----------------------------------------------------------------------------
(* C11 *)

\* C11: with server.poweredBy truthy every response carries X-Powered-By
\* set to Xpresser, or to the configured string; with server.poweredBy falsy
\* no header-setting middleware is installed and the app's x-powered-by
\* setting is disabled.
C11_PoweredByHeader ==
    app # Undefined =>
        IF Truthy(config.mw.poweredBy)
        THEN Answered =>
                exchange.res.headers.xPoweredBy =
                    (IF config.mw.poweredBy = "true" THEN "Xpresser"
                     ELSE config.mw.poweredBy)
        ELSE /\ ~Installed("poweredBy")
             /\ settings.xPoweredBy = "disabled"

----------------------------------------------------------------------------
(* C12 *)

\* C12: with the HttpToHttps enforcer installed it is the first handler of
\* every request; a secure request (https connection, or x-forwarded-proto
\* https) is passed on and not redirected; any other request is answered
\* with a redirect to https:// followed by the same host and url and no
\* other handler runs.
C12_EnforcerRedirects ==
    (Answered /\ Installed("httpToHttpsEnforcer")) =>
        LET req == exchange.req
            res == exchange.res IN
        /\ Len(res.log) > 0
        /\ res.log[1].mw = "httpToHttpsEnforcer"
        /\ Ran("httpToHttpsEnforcer") = {1}
        /\ IF req.channel = "https" \/ req.xForwardedProto = "https"
           THEN /\ res.log[1].action = "next"
                /\ res.outcome # "redirect"
                /\ res.headers.location = <<>>
           ELSE /\ res.log[1].action = "redirect"
                /\ res.outcome = "redirect"
                /\ res.headers.location = <<"https://", req.hostname>> \o req.url
                /\ Len(res.log) = 1

\* a plain http request whose url carries an http:// URL was redirected
C12_Witness ==
    /\ Answered
    /\ Installed("httpToHttpsEnforcer")
    /\ exchange.req.channel = "http"
    /\ Len(exchange.req.url) > 1
    /\ exchange.res.outcome = "redirect"

----------------------------------------------------------------------------
(* C13 *)

\* a string that is empty after trimming: it holds blanks only
Blank(s) == \A i \in 1..Len(s) : s[i] = " "

\* C13: with server.convertBodyEmptyStringToNull enabled or unset the
\* converter is installed, runs for every request that reaches it without
\* an error, sets the fields whose value is a blank string to null, leaves
\* every other field and the keys as they are, and passes the request on.
C13_ConverterNullsBlankStrings ==
    (Answered /\ config.mw.convertBodyEmptyStringToNull \in {"undefined", "true"}) =>
        LET res == exchange.res IN
        /\ Installed("convertEmptyStringToNull")
        /\ (res.outcome # "redirect" /\ ~res.err.raised) =>
               Ran("convertEmptyStringToNull") # {}
        /\ \A i \in Ran("convertEmptyStringToNull") :
              LET e == res.log[i] IN
              /\ e.action = "next"
              /\ e.bodyOut.defined = e.bodyIn.defined
              /\ \A k \in BodyKeys :
                    LET v == e.bodyIn.fields[k] IN
                    e.bodyOut.fields[k] =
                        IF v.type = "string" /\ Blank(v.chars) THEN Null ELSE v

\* the converter saw a body with a blank field and a word, nulled the one
\* and kept the other
C13_Witness ==
    /\ Answered
    /\ \E i \in Ran("convertEmptyStringToNull") :
          LET e == exchange.res.log[i] IN
          /\ e.bodyIn.fields["a"] = Str(<<" ">>)
          /\ e.bodyIn.fields["b"] = Str(<<"x">>)
          /\ e.bodyOut.fields["a"] = Null
          /\ e.bodyOut.fields["b"] = Str(<<"x">>)

----------------------------------------------------------------------------
(* C14 *)

\* C14: with the body parser enabled the skipper passes every request on;
\* an error of type entity.parse.failed is cleared, and the handlers and
\* routes behind the skipper run; every other error leaves the skipper
\* unchanged and the request ends as an error.
C14_SkipperClearsParseErrors ==
    (Answered /\ Truthy(config.mw.useBodyParser)) =>
        LET req == exchange.req
            res == exchange.res IN
        /\ \A i \in Ran("skipBadJson") :
              LET e == res.log[i] IN
              /\ e.action = "next"
              /\ e.errIn.raised
              /\ e.errOut = IF e.errIn.type = "entity.parse.failed"
                            THEN NoError ELSE e.errIn
        /\ (res.outcome # "redirect" /\ req.fault # "none") =>
              Ran("skipBadJson") # {}
        /\ (res.outcome # "redirect" /\ req.fault = "entity.parse.failed") =>
              /\ ~res.err.raised
              /\ res.outcome \in {"route", "notFound"}
              /\ Installed("convertEmptyStringToNull") =>
                    \E i \in Ran("skipBadJson"), j \in Ran("convertEmptyStringToNull") :
                        i < j
              /\ Installed("route") => res.outcome = "route"
        /\ (res.outcome # "redirect" /\ req.fault \notin {"none", "entity.parse.failed"}) =>
              /\ res.err = Error(req.fault)
              /\ res.outcome = "error"

\* a body that failed to parse went through the skipper and the converter
\* and reached the route
C14_Witness ==
    /\ Answered
    /\ exchange.req.fault = "entity.parse.failed"
    /\ Ran("skipBadJson") # {}
    /\ Ran("convertEmptyStringToNull") # {}
    /\ exchange.res.outcome = "route"

====
